---- MODULE Spec2Model ----
(***************************************************************************)
(* The operation-execution pipeline of the reverse proxy service:          *)
(*   proxy/decision_mapper.py  DecisionMapper.execute_operation            *)
(*   providers/openliga.py     RateLimiter, OpenLigaProvider               *)
(*   proxy/schemas.py          payload and response schemas                *)
(*   main.py                   proxy_execute, the HTTP front-end           *)
(*                                                                         *)
(* Executions are asyncio tasks on one event loop.  A task runs without    *)
(* interruption from one suspension point to the next, so one action of    *)
(* the model is one such run: from the call of execute_operation, or from  *)
(* the end of an asyncio.sleep, to the next await that really suspends     *)
(* (an asyncio.sleep, or a wait for the held asyncio.Lock) or to the       *)
(* return of execute_operation.  session.request is a synchronous call:    *)
(* the task keeps the event loop while it lasts ("request"), each exchange *)
(* with the upstream is one step of that task, and no other task and no    *)
(* clock step comes between these steps: the time the call takes is added  *)
(* to the clock when it ends.                                              *)
(*                                                                         *)
(* Time is counted in ticks of 0.1 s.                                      *)
(***************************************************************************)
EXTENDS Integers, Sequences, FiniteSets, TLC

VARIABLES
    now,        \* time.time(), in ticks
    cfg,        \* the adapter's backoff configuration (OpenLigaProvider.__init__)
    requests,   \* RateLimiter.requests: timestamps of recent acquisitions
    lock,       \* RateLimiter.lock: NoTask when free, else the task holding it
    pc,         \* per task: idle, lock_wait, rate_sleep, request, backoff, done
    call,       \* per task: the operation under execution, its payload and arguments
    attempt,    \* per task: the loop variable of _make_request
    tries,      \* per task: requests the session has re-sent in the current session.request
    wake,       \* per task: the time its asyncio.sleep ends
    result,     \* per task: what execute_operation returned
    raw,        \* per task: how the provider method ended (provider_response, or
                \* the exception it raised)
    started,    \* number of execute_operation calls so far
    grants,     \* history: the time of every completed acquire(), in order
    sent,       \* per task, history: HTTP requests put on the wire by the current call
    slots,      \* per task, history: acquisitions completed by the current call
    sleeps,     \* per task, history: the backoff sleeps of the current call, in order
    path,       \* per task, history: the path of _make_request that computed the
                \* last of them (status_backoff, exception_backoff)
    followed,   \* per task, history: how far the upstream's answers to the current
                \* call have followed Scenario (-1 once they left it)
    last,       \* per task, history: the last exchange of the current call with the
                \* upstream
    wire,       \* history: the times HTTP requests were put on the wire, as far as
                \* they lie in the rolling window that ends now
    http_response   \* per task: the HTTP response proxy_execute builds from the result

vars == <<now, cfg, requests, lock, pc, call, attempt, tries, wake, result, raw,
          started, grants, sent, slots, sleeps, path, followed, last, wire, http_response>>

----------------------------------------------------------------------------
(* Bounds of the model.                                                    *)

NumTasks == 2       \* concurrent executions
MaxOps == 3         \* execute_operation calls in one behaviour of Spec
SoloOps == 1        \* execute_operation calls in one behaviour of SoloSpec
BurstOps == 4       \* execute_operation calls in one behaviour of BurstSpec
MaxTime == 12       \* the clock steps up to here (sleeps may end later)
ClockStep == 4      \* ticks of one step of the clock
MaxLatency == 1     \* ticks one session.request may take
MaxRequests == 2    \* rate_limit_requests
TimeWindow == 10    \* rate_limit_window, 1 s

(* Program constants.                                                      *)
Margin == 1         \* the 0.1 s added to the rate limiter's wait
RetryTotal == 2     \* Retry(total=2) mounted on the session

Tasks == 1..NumTasks
NoTask == 0

Min(a, b) == IF a <= b THEN a ELSE b
Max(a, b) == IF a >= b THEN a ELSE b

RECURSIVE Pow(_, _)
Pow(b, e) == IF e = 0 THEN 1 ELSE b * Pow(b, e - 1)

----------------------------------------------------------------------------
(* JSON values and Python values, tagged with their type.                  *)

JNull == [t |-> "null"]
JInt(n) == [t |-> "int", v |-> n]
JStr(s) == [t |-> "str", v |-> s]
JBool(b) == [t |-> "bool", v |-> b]
JObj(f) == [t |-> "obj", v |-> f]
JArr(s) == [t |-> "arr", v |-> s]
EmptyDict == <<>>

IsDict(x) == x.t = "obj"
IsList(x) == x.t = "arr"

\* d.get(k, default) on a Python dict
Get(d, k, default) == IF k \in DOMAIN d THEN d[k] ELSE default

\* Python truthiness: bool(x)
Truthy(x) ==
    CASE x.t = "null" -> FALSE
      [] x.t = "bool" -> x.v
      [] x.t = "int" -> x.v # 0
      [] x.t = "str" -> x.v # ""
      [] x.t = "obj" -> DOMAIN x.v # {}
      [] x.t = "arr" -> Len(x.v) > 0
      [] OTHER -> TRUE

----------------------------------------------------------------------------
(* proxy/schemas.py: the declared shapes, and their validation.  A field   *)
(* is [name, alias, type, required]; input is read under the alias, output *)
(* (model_dump) is written under the name.  Types: int, str, bool, optstr  *)
(* (Optional[str]), datestr (Union[datetime, str]), a nested model, a list *)
(* of models.                                                              *)

Scalar(k) == [k |-> k, m |-> ""]
Model(m) == [k |-> "model", m |-> m]
ListOf(m) == [k |-> "list", m |-> m]
Field(name, alias, type, required) ==
    [name |-> name, alias |-> alias, type |-> type, required |-> required]

ListLeaguesPayload == <<>>

GetLeagueMatchesPayload ==
    << Field("league_shortcut", "league_shortcut", Scalar("str"), TRUE),
       Field("league_season", "league_season", Scalar("str"), TRUE) >>

GetTeamPayload == << Field("team_id", "team_id", Scalar("int"), TRUE) >>

GetMatchPayload == << Field("match_id", "match_id", Scalar("int"), TRUE) >>

LeagueSummary ==
    << Field("id", "id", Scalar("int"), TRUE),
       Field("name", "name", Scalar("str"), TRUE),
       Field("shortcut", "shortcut", Scalar("str"), TRUE),
       Field("country", "country", Scalar("str"), TRUE),
       Field("season", "current_season", Scalar("str"), TRUE) >>

TeamDetail ==
    << Field("id", "team_id", Scalar("int"), TRUE),
       Field("name", "name", Scalar("str"), TRUE),
       Field("short_name", "short_name", Scalar("str"), TRUE),
       Field("icon_url", "icon_url", Scalar("optstr"), FALSE) >>

MatchScore ==
    << Field("home", "home", Scalar("int"), TRUE),
       Field("away", "away", Scalar("int"), TRUE),
       Field("status", "match_status", Scalar("str"), TRUE) >>

MatchDetail ==
    << Field("id", "match_id", Scalar("int"), TRUE),
       Field("league_name", "league_name", Scalar("str"), TRUE),
       Field("date_time", "match_date_time", Scalar("datestr"), TRUE),
       Field("team_home", "team_home", Model("TeamDetail"), TRUE),
       Field("team_away", "team_away", Model("TeamDetail"), TRUE),
       Field("score", "final_score", Model("MatchScore"), TRUE),
       Field("is_finished", "is_finished", Scalar("bool"), TRUE) >>

ListLeaguesResponse == << Field("leagues", "leagues", ListOf("LeagueSummary"), TRUE) >>

GetLeagueMatchesResponse == << Field("matches", "matches", ListOf("MatchDetail"), TRUE) >>

GetTeamResponse == << Field("team", "team", Model("TeamDetail"), TRUE) >>

GetMatchResponse == << Field("match", "match", Model("MatchDetail"), TRUE) >>

ModelFields(m) ==
    CASE m = "ListLeaguesPayload" -> ListLeaguesPayload
      [] m = "GetLeagueMatchesPayload" -> GetLeagueMatchesPayload
      [] m = "GetTeamPayload" -> GetTeamPayload
      [] m = "GetMatchPayload" -> GetMatchPayload
      [] m = "LeagueSummary" -> LeagueSummary
      [] m = "TeamDetail" -> TeamDetail
      [] m = "MatchScore" -> MatchScore
      [] m = "MatchDetail" -> MatchDetail
      [] m = "ListLeaguesResponse" -> ListLeaguesResponse
      [] m = "GetLeagueMatchesResponse" -> GetLeagueMatchesResponse
      [] m = "GetTeamResponse" -> GetTeamResponse
      [] m = "GetMatchResponse" -> GetMatchResponse

\* The strings the inputs use that read as an integer, and their values.
ParseInt(s) ==
    CASE s = "40" -> [ok |-> TRUE, v |-> 40]
      [] s = "7" -> [ok |-> TRUE, v |-> 7]
      [] OTHER -> [ok |-> FALSE, v |-> 0]

Valid(v) == [ok |-> TRUE, v |-> v, type |-> "", msg |-> ""]
Invalid(type, msg) == [ok |-> FALSE, v |-> JNull, type |-> type, msg |-> msg]

\* Validation of one scalar in pydantic's default (lax) mode.
ValidateScalar(k, x) ==
    CASE k = "int" ->
            CASE x.t = "int" -> Valid(x)
              [] x.t = "bool" -> Valid(JInt(IF x.v THEN 1 ELSE 0))
              [] x.t = "str" ->
                    IF ParseInt(x.v).ok
                    THEN Valid(JInt(ParseInt(x.v).v))
                    ELSE Invalid("int_parsing",
                        "Input should be a valid integer, unable to parse string as an integer")
              [] OTHER -> Invalid("int_type", "Input should be a valid integer")
      [] k = "str" ->
            IF x.t = "str" THEN Valid(x)
            ELSE Invalid("string_type", "Input should be a valid string")
      [] k = "optstr" ->
            IF x.t \in {"str", "null"} THEN Valid(x)
            ELSE Invalid("string_type", "Input should be a valid string")
      [] k = "bool" ->
            CASE x.t = "bool" -> Valid(x)
              [] x.t = "int" /\ x.v \in {0, 1} -> Valid(JBool(x.v = 1))
              [] x.t = "str" /\ x.v \in {"true", "false"} -> Valid(JBool(x.v = "true"))
              [] x.t = "str" -> Invalid("bool_parsing",
                        "Input should be a valid boolean, unable to interpret input")
              [] OTHER -> Invalid("bool_type", "Input should be a valid boolean")
      [] k = "datestr" ->
            CASE x.t = "str" -> Valid(x)
              [] x.t = "int" -> Valid([t |-> "datetime", v |-> x.v])
              [] OTHER -> Invalid("string_type", "Input should be a valid string")

RECURSIVE Validate(_, _)
\* Validation of x against a type: [ok, v] with v the validated (dumped) value.
Validate(type, x) ==
    CASE type.k = "model" ->
            IF ~IsDict(x) THEN Invalid("model_type", "Input should be a valid dictionary")
            ELSE
                LET fs == ModelFields(type.m)
                    one(f) ==
                        IF f.alias \in DOMAIN x.v THEN Validate(f.type, x.v[f.alias])
                        ELSE IF f.required THEN Invalid("missing", "Field required")
                        ELSE Valid(JNull)
                    res == [i \in 1..Len(fs) |-> one(fs[i])]
                    names == {fs[i].name : i \in 1..Len(fs)}
                    idx(n) == CHOOSE i \in 1..Len(fs) : fs[i].name = n
                IN  IF \A i \in 1..Len(fs) : res[i].ok
                    THEN Valid(JObj([n \in names |-> res[idx(n)].v]))
                    ELSE Invalid("model", "nested field errors")
      [] type.k = "list" ->
            IF ~IsList(x) THEN Invalid("list_type", "Input should be a valid list")
            ELSE
                LET res == [i \in 1..Len(x.v) |-> Validate(Model(type.m), x.v[i])]
                IN  IF \A i \in 1..Len(x.v) : res[i].ok
                    THEN Valid(JArr([i \in 1..Len(x.v) |-> res[i].v]))
                    ELSE Invalid("list", "nested item errors")
      [] OTHER -> ValidateScalar(type.k, x)

PayloadErrorsFirstOnly(m, data) ==
    LET fs == ModelFields(m)
        one(f) ==
            IF f.alias \in DOMAIN data THEN Validate(f.type, data[f.alias])
            ELSE Invalid("missing", "Field required")
        failing == SelectSeq(fs, LAMBDA f : ~one(f).ok)
    IN  [i \in 1..Min(1, Len(failing)) |->
            [loc |-> <<failing[i].alias>>,
             msg |-> one(failing[i]).msg,
             type |-> one(failing[i]).type]]

\* e.errors() of the ValidationError a payload model raises for data (a dict of
\* keyword arguments): one entry per declared field that fails, in declaration
\* order; keys that are no field are ignored.  <<>> when the payload validates.
PayloadErrors(m, data) ==
    LET fs == ModelFields(m)
        one(f) ==
            IF f.alias \in DOMAIN data THEN Validate(f.type, data[f.alias])
            ELSE Invalid("missing", "Field required")
        failing == SelectSeq(fs, LAMBDA f : ~one(f).ok)
    IN  [i \in 1..Len(failing) |->
            [loc |-> <<failing[i].alias>>,
             msg |-> one(failing[i]).msg,
             type |-> one(failing[i]).type]]

\* The validated payload object: its fields, coerced.
ValidatedPayload(m, data) == Validate(Model(m), JObj(data)).v.v

----------------------------------------------------------------------------
(* providers/openliga.py: the four provider methods, as maps from the body *)
(* _make_request returned (data) to the dict the method returns.  A method *)
(* either returns a value or raises an exception with a message.           *)

Returned(v) == [called |-> TRUE, raised |-> FALSE, value |-> v, message |-> ""]
Raised(msg) == [called |-> TRUE, raised |-> TRUE, value |-> JNull, message |-> msg]
NotCalled == [called |-> FALSE, raised |-> FALSE, value |-> JNull, message |-> ""]

list_leagues(data) ==
    LET league(l) ==
            JObj([id |-> Get(l.v, "leagueId", JInt(0)),
                  name |-> Get(l.v, "leagueName", JStr("")),
                  shortcut |-> Get(l.v, "leagueShortcut", JStr("")),
                  country |-> Get(l.v, "country", JStr("")),
                  current_season |-> Get(l.v, "leagueSeason", JStr(""))])
        dicts == IF IsList(data) THEN SelectSeq(data.v, IsDict) ELSE <<>>
        leagues == [i \in 1..Len(dicts) |-> league(dicts[i])]
    IN  Returned(JObj([leagues |-> JArr(leagues)]))

\* team_home / team_away: match.get(key, {}), replaced by {} when it is no dict
TeamOf(match, key) ==
    LET team == Get(match.v, key, JObj(EmptyDict))
    IN  IF IsDict(team) THEN team ELSE JObj(EmptyDict)

TeamRecord(team) ==
    JObj([team_id |-> Get(team.v, "teamId", JInt(0)),
          name |-> Get(team.v, "teamName", JStr("")),
          short_name |-> Get(team.v, "shortName", JStr("")),
          icon_url |-> Get(team.v, "teamIconUrl", JNull)])

FinalScoreFirstResult(match) ==
    LET scheduled == JObj([home |-> JInt(0), away |-> JInt(0),
                           match_status |-> JStr("scheduled")])
        match_results == Get(match.v, "matchResults", JArr(<<>>))
    IN  IF Truthy(match_results) /\ IsList(match_results) /\ Len(match_results.v) > 0
        THEN LET final_result == match_results.v[1]
             IN  IF IsDict(final_result)
                 THEN JObj([home |-> Get(final_result.v, "pointsTeam1", JInt(0)),
                            away |-> Get(final_result.v, "pointsTeam2", JInt(0)),
                            match_status |->
                                IF Truthy(Get(match.v, "matchIsFinished", JNull))
                                THEN JStr("finished")
                                ELSE JStr("in_progress")])
                 ELSE scheduled
        ELSE scheduled

\* final_score of one match element
FinalScore(match) ==
    LET scheduled == JObj([home |-> JInt(0), away |-> JInt(0),
                           match_status |-> JStr("scheduled")])
        match_results == Get(match.v, "matchResults", JArr(<<>>))
    IN  IF Truthy(match_results) /\ IsList(match_results) /\ Len(match_results.v) > 0
        THEN LET final_result == match_results.v[Len(match_results.v)]
             IN  IF IsDict(final_result)
                 THEN JObj([home |-> Get(final_result.v, "pointsTeam1", JInt(0)),
                            away |-> Get(final_result.v, "pointsTeam2", JInt(0)),
                            match_status |->
                                IF Truthy(Get(match.v, "matchIsFinished", JNull))
                                THEN JStr("finished")
                                ELSE JStr("in_progress")])
                 ELSE scheduled
        ELSE scheduled

get_league_matches(data, league_shortcut, league_season) ==
    LET item(match) ==
            JObj([match_id |-> Get(match.v, "matchID", JInt(0)),
                  league_name |-> league_shortcut,
                  match_date_time |-> Get(match.v, "matchDateTime", JStr("")),
                  team_home |-> TeamRecord(TeamOf(match, "team1")),
                  team_away |-> TeamRecord(TeamOf(match, "team2")),
                  final_score |-> FinalScore(match),
                  is_finished |-> Get(match.v, "matchIsFinished", JBool(FALSE))])
        dicts == IF IsList(data) THEN SelectSeq(data.v, IsDict) ELSE <<>>
        matches == [i \in 1..Len(dicts) |-> item(dicts[i])]
    IN  Returned(JObj([matches |-> JArr(matches)]))

get_teamStrict(data, team_id) ==
    IF IsDict(data) THEN Returned(JObj([team |-> TeamRecord(data)]))
    ELSE Raised("Team not found")

get_team(data, team_id) ==
    LET defaults == JObj([team_id |-> JInt(0), name |-> JStr(""),
                          short_name |-> JStr(""), icon_url |-> JNull])
    IN  Returned(JObj([team |-> IF IsDict(data) THEN TeamRecord(data) ELSE defaults]))

\* the dict get_match returns for the resolved match element
MatchRecord(match) ==
    JObj([match |->
        JObj([match_id |-> Get(match.v, "matchID", JInt(0)),
              league_name |-> Get(match.v, "leagueName", JStr("")),
              match_date_time |-> Get(match.v, "matchDateTime", JStr("")),
              team_home |-> TeamRecord(TeamOf(match, "team1")),
              team_away |-> TeamRecord(TeamOf(match, "team2")),
              final_score |-> FinalScore(match),
              is_finished |-> Get(match.v, "matchIsFinished", JBool(FALSE))])])

get_matchLastElement(data, match_id) ==
    IF ~Truthy(data) THEN Raised("Match not found")
    ELSE
        LET match == IF IsList(data) /\ Len(data.v) > 0 THEN data.v[Len(data.v)]
                     ELSE IF IsDict(data) THEN data
                     ELSE JNull
        IN  IF ~Truthy(match) \/ ~IsDict(match) THEN Raised("Match not found")
            ELSE Returned(MatchRecord(match))

get_match(data, match_id) ==
    IF ~Truthy(data) THEN Raised("Match not found")
    ELSE
        LET match == IF IsList(data) /\ Len(data.v) > 0 THEN data.v[1]
                     ELSE IF IsDict(data) THEN data
                     ELSE JNull
        IN  IF ~Truthy(match) \/ ~IsDict(match) THEN Raised("Match not found")
            ELSE Returned(MatchRecord(match))

----------------------------------------------------------------------------
(* proxy/decision_mapper.py: the registry and the stages of                *)
(* execute_operation.                                                      *)

\* list(self.operation_map.keys()), in insertion order
OperationKeys == <<"ListLeagues", "GetLeagueMatches", "GetTeam", "GetMatch">>

operation_map ==
    [ListLeagues |->
        [payload_validator |-> "ListLeaguesPayload",
         response_schema |-> "ListLeaguesResponse"],
     GetLeagueMatches |->
        [payload_validator |-> "GetLeagueMatchesPayload",
         response_schema |-> "GetLeagueMatchesResponse"],
     GetTeam |->
        [payload_validator |-> "GetTeamPayload",
         response_schema |-> "GetTeamResponse"],
     GetMatch |->
        [payload_validator |-> "GetMatchPayload",
         response_schema |-> "GetMatchResponse"]]

\* operation_config["args_mapper"](validated_payload)
args_mapper(operation_type, validated_payload) ==
    CASE operation_type = "ListLeagues" -> <<>>
      [] operation_type = "GetLeagueMatches" ->
            <<validated_payload.league_shortcut, validated_payload.league_season>>
      [] operation_type = "GetTeam" -> <<validated_payload.team_id>>
      [] operation_type = "GetMatch" -> <<validated_payload.match_id>>

\* operation_config["provider_method"](*args), from the body _make_request returned
provider_method(operation_type, args, data) ==
    CASE operation_type = "ListLeagues" -> list_leagues(data)
      [] operation_type = "GetLeagueMatches" -> get_league_matches(data, args[1], args[2])
      [] operation_type = "GetTeam" -> get_team(data, args[1])
      [] operation_type = "GetMatch" -> get_match(data, args[1])

UnknownOperationStaleList(operation_type) ==
    [error |-> "Unknown operationType: " \o operation_type,
     code |-> "UNKNOWN_OPERATION",
     details |-> [valid_operations |-> SubSeq(OperationKeys, 1, Len(OperationKeys) - 1)]]

UnknownOperation(operation_type) ==
    [error |-> "Unknown operationType: " \o operation_type,
     code |-> "UNKNOWN_OPERATION",
     details |-> [valid_operations |-> OperationKeys]]

\* the dict built from e.errors() of the payload's ValidationError
ValidationFailed(errors) ==
    [error |-> "Payload validation failed",
     code |-> "VALIDATION_ERROR",
     details |-> [validation_errors |->
        [i \in 1..Len(errors) |->
            [field |-> errors[i].loc[1],
             message |-> errors[i].msg,
             type |-> errors[i].type]]]]

UpstreamFailedGeneric(message) ==
    [error |-> "Upstream API failed",
     code |-> "UPSTREAM_ERROR",
     details |-> [message |-> "Upstream API failed"]]

\* except Exception as e, around the provider call
UpstreamFailed(message) ==
    [error |-> "Upstream API failed",
     code |-> "UPSTREAM_ERROR",
     details |-> [message |-> message]]

NormalizationFailed ==
    [error |-> "Internal response normalization error",
     code |-> "INTERNAL_ERROR",
     details |-> [message |-> "Provider response format unexpected"]]

NormalizeLenient(operation_type, provider_response) ==
    LET normalized_response ==
            Validate(Model(operation_map[operation_type].response_schema),
                     provider_response)
    IN  IF normalized_response.ok THEN normalized_response.v.v
        ELSE provider_response.v

\* response_schema(**provider_response).model_dump(), or the INTERNAL_ERROR dict
Normalize(operation_type, provider_response) ==
    LET normalized_response ==
            Validate(Model(operation_map[operation_type].response_schema),
                     provider_response)
    IN  IF normalized_response.ok THEN normalized_response.v.v
        ELSE NormalizationFailed

AfterProviderCallUncaught(operation_type, response) ==
    IF response.raised
    THEN [exception |-> response.message]
    ELSE Normalize(operation_type, response.value)

\* execute_operation from the return (or the exception) of the provider method on
AfterProviderCall(operation_type, response) ==
    IF response.raised
    THEN UpstreamFailed(response.message)
    ELSE Normalize(operation_type, response.value)

----------------------------------------------------------------------------
(* The inputs: operation names, payloads, configurations, and what the     *)
(* upstream may answer.                                                    *)

OperationTypes == {"ListLeagues", "GetLeagueMatches", "GetTeam", "GetMatch", "GetPlayer"}

Payloads ==
    { [league_shortcut |-> JStr("bl1")],
      [league_shortcut |-> JStr("bl1"), league_season |-> JStr("2024")],
      [league_shortcut |-> JInt(1), league_season |-> JNull],
      [team_id |-> JInt(40), match_id |-> JStr("7")],
      [team_id |-> JStr("forty")] }

\* The configuration of the retry scenario (max_retries=3, base_delay=1 s,
\* backoff_multiplier=2, max_delay=30 s, jitter_range=0), and one whose
\* max_delay caps the delay from the second retry on and whose jitter exceeds
\* 100%.  Delays are in ticks, jitter_range in percent.
ScenarioConfig ==
    [max_retries |-> 3, base_delay |-> 10, max_delay |-> 300,
     backoff_multiplier |-> 2, jitter_range |-> 0]

\* one retry after 0.1 s
ShortConfig ==
    [max_retries |-> 1, base_delay |-> 1, max_delay |-> 300,
     backoff_multiplier |-> 2, jitter_range |-> 0]

Configs ==
    { ScenarioConfig,
      [max_retries |-> 2, base_delay |-> 10, max_delay |-> 20,
       backoff_multiplier |-> 3, jitter_range |-> 150] }

TeamBayern ==
    JObj([teamId |-> JInt(40), teamName |-> JStr("FC Bayern"),
          shortName |-> JStr("FCB"), teamIconUrl |-> JStr("https://i/40.png")])

TeamBvb == JObj([teamId |-> JInt(7), teamName |-> JStr("Dortmund")])

MatchFinished ==
    JObj([matchID |-> JInt(7), leagueName |-> JStr("1. Bundesliga"),
          matchDateTime |-> JStr("2024-05-18T15:30:00"),
          team1 |-> TeamBayern, team2 |-> TeamBvb,
          matchResults |-> JArr(<< JObj([pointsTeam1 |-> JInt(1), pointsTeam2 |-> JInt(0)]),
                                   JObj([pointsTeam1 |-> JInt(2), pointsTeam2 |-> JInt(1)]) >>),
          matchIsFinished |-> JBool(TRUE)])

MatchScheduled ==
    JObj([matchID |-> JInt(1), team1 |-> TeamBayern, team2 |-> JStr("tbd"),
          matchResults |-> JArr(<<>>), matchIsFinished |-> JNull])

MatchLive ==
    JObj([matchID |-> JInt(2), team1 |-> TeamBvb, team2 |-> TeamBayern,
          matchResults |-> JArr(<< JObj([pointsTeam1 |-> JInt(3)]) >>),
          matchIsFinished |-> JBool(FALSE)])

LeagueOne ==
    JObj([leagueId |-> JInt(1), leagueName |-> JStr("1. Bundesliga"),
          leagueShortcut |-> JStr("bl1"), country |-> JStr("DE"),
          leagueSeason |-> JStr("2024")])

LeagueBad == JObj([leagueId |-> JStr("7"), leagueName |-> JNull, leagueSeason |-> JInt(2024)])

\* The JSON bodies a 200 answer may carry.
Bodies ==
    { JArr(<<>>),
      JArr(<<JStr("junk"), LeagueOne>>),
      JArr(<<LeagueBad>>),
      JArr(<<MatchScheduled>>),
      JArr(<<MatchLive, MatchFinished>>),
      MatchFinished,
      TeamBvb,
      JInt(5) }

\* One exchange on the wire: a response (status, body) or a transport failure.
Response(status, body) == [exc |-> FALSE, status |-> status, body |-> body, cause |-> ""]
TransportFailure(cause) == [exc |-> TRUE, status |-> 0, body |-> JNull, cause |-> cause]

ErrorStatuses == {404, 503}

Exchanges ==
    {Response(200, b) : b \in Bodies}
        \cup {Response(st, JNull) : st \in ErrorStatuses}
        \cup {TransportFailure("HTTPSConnectionPool(host='api.openligadb.de', port=443): Max retries exceeded")}

----------------------------------------------------------------------------
(* providers/openliga.py: the session, the retrying caller, the limiter.   *)

\* Retry(status_forcelist=...) of the session's HTTPAdapter
status_forcelist == {429, 500, 502, 503, 504}

\* the statuses _make_request retries
RetryableStatuses == {429, 500, 502, 503, 504}

\* The session's HTTPAdapter sends the request again after the exchange x when it
\* has re-sent it n times so far: Retry(total=2, status_forcelist=...) counts
\* transport failures and forced statuses against total; with the budget used up
\* the last response is returned (raise_on_status=False) or the failure raised.
SessionRetries(x, n) == (x.exc \/ x.status \in status_forcelist) /\ n < RetryTotal

StatusRetrySleepUncapped(k, u) ==
    LET delay == cfg.base_delay * Pow(cfg.backoff_multiplier, k)
        jitter == (u * delay) \div 100
    IN  Max(0, delay + jitter)

\* the backoff sleep on the retryable-status path; u is the draw of
\* random.uniform(-jitter_range, jitter_range), in percent
StatusRetrySleep(k, u) ==
    LET delay == Min(cfg.base_delay * Pow(cfg.backoff_multiplier, k), cfg.max_delay)
        jitter == (u * delay) \div 100
    IN  Max(0, delay + jitter)

\* the backoff sleep on the transport-failure path
ExceptionRetrySleep(k, u) ==
    LET delay == Min(cfg.base_delay * Pow(cfg.backoff_multiplier, k), cfg.max_delay)
        jitter == (u * delay) \div 100
    IN  Max(0, delay + jitter)

\* the draws of random.uniform the model follows: both ends and the middle
JitterDraws == {0 - cfg.jitter_range, 0, cfg.jitter_range}

\* What attempt k of _make_request does with the outcome x of session.request.
AttemptOutcome(k, x) ==
    CASE ~x.exc /\ x.status = 200 ->
            [kind |-> "return", message |-> ""]
      [] ~x.exc /\ x.status \in RetryableStatuses /\ k < cfg.max_retries ->
            [kind |-> "status_backoff", message |-> ""]
      [] ~x.exc ->
            [kind |-> "raise",
             message |-> "Upstream API failed with status " \o ToString(x.status)]
      [] x.exc /\ k < cfg.max_retries ->
            [kind |-> "exception_backoff", message |-> ""]
      [] OTHER ->
            [kind |-> "raise",
             message |-> "Upstream API request failed: " \o x.cause]

\* RateLimiter.acquire: the timestamps kept at time t
Pruned(reqs, t) == SelectSeq(reqs, LAMBDA req_time : t - req_time < TimeWindow)

WindowFullOffByOne(reqs) == Len(reqs) > MaxRequests

\* RateLimiter.acquire: the window is full
WindowFull(reqs) == Len(reqs) >= MaxRequests

\* the wait with the age of the oldest timestamp added instead of subtracted
RateLimitSleepSignError(reqs, t) == TimeWindow + (t - reqs[1]) + Margin

\* RateLimiter.acquire: the wait computed when the window is full
RateLimitSleep(reqs, t) == TimeWindow - (t - reqs[1]) + Margin

\* The retry scenario: the statuses of an upstream that fails three times.
Scenario == <<503, 503, 503, 200>>

\* the scenario position after the exchange x, from position f
Follow(f, x) ==
    IF f >= 0 /\ f < Len(Scenario) /\ ~x.exc /\ x.status = Scenario[f + 1]
    THEN f + 1
    ELSE 0 - 1

----------------------------------------------------------------------------
(* The state machine.                                                      *)

NoCall == [op |-> "", payload |-> EmptyDict, args |-> <<>>]
NoResult == EmptyDict
NoExchange == [exc |-> FALSE, status |-> 0, body |-> JNull, cause |-> ""]
NoResponse == EmptyDict

\* the request identifier of the execution on task p: the middleware's
\* x-request-id header or uuid4, read back by get_request_id()
RequestId(p) == "req-" \o ToString(p)

\* main.py: what proxy_execute answers once execute_operation returned r
proxy_execute(request_id, operation_type, r) ==
    IF "error" \in DOMAIN r
    THEN [status_code |-> CASE r.code = "UPSTREAM_ERROR" -> 502
                            [] r.code = "INTERNAL_ERROR" -> 500
                            [] OTHER -> 400,
          content |-> r]
    ELSE [status_code |-> 200,
          content |-> [requestId |-> request_id,
                       operationType |-> operation_type,
                       data |-> r]]

\* the send times that lie in the rolling window of TimeWindow ending at t
InWindow(times, t) == SelectSeq(times, LAMBDA s : t - s < TimeWindow)

InitWith(configs) ==
    /\ now = 0
    /\ cfg \in configs
    /\ requests = <<>>
    /\ lock = NoTask
    /\ pc = [p \in Tasks |-> "idle"]
    /\ call = [p \in Tasks |-> NoCall]
    /\ attempt = [p \in Tasks |-> 0]
    /\ tries = [p \in Tasks |-> 0]
    /\ wake = [p \in Tasks |-> 0]
    /\ result = [p \in Tasks |-> NoResult]
    /\ raw = [p \in Tasks |-> NotCalled]
    /\ started = 0
    /\ grants = <<>>
    /\ sent = [p \in Tasks |-> 0]
    /\ slots = [p \in Tasks |-> 0]
    /\ sleeps = [p \in Tasks |-> <<>>]
    /\ path = [p \in Tasks |-> ""]
    /\ followed = [p \in Tasks |-> 0]
    /\ last = [p \in Tasks |-> NoExchange]
    /\ wire = <<>>
    /\ http_response = [p \in Tasks |-> NoResponse]

\* A task in "request" is inside the synchronous session.request and a task in
\* "done" is returning from execute_operation: it has the event loop, so no
\* other task runs and no clock step is taken until it suspends or has returned.
Quiet == \A q \in Tasks : pc[q] \notin {"request", "done"}

\* a dispatcher that calls the provider method again when it raised
ReturnReinvoking(p, operation_type, r, provider_response) ==
    IF provider_response.raised
    THEN /\ pc' = [pc EXCEPT ![p] = "request"]
         /\ raw' = [raw EXCEPT ![p] = provider_response]
         /\ UNCHANGED <<result, http_response>>
    ELSE /\ pc' = [pc EXCEPT ![p] = "done"]
         /\ result' = [result EXCEPT ![p] = r]
         /\ raw' = [raw EXCEPT ![p] = provider_response]
         /\ http_response' = [http_response EXCEPT ![p] = proxy_execute(RequestId(p), operation_type, r)]

\* execute_operation returns r to proxy_execute, which builds the HTTP response
Return(p, operation_type, r, provider_response) ==
    /\ pc' = [pc EXCEPT ![p] = "done"]
    /\ result' = [result EXCEPT ![p] = r]
    /\ raw' = [raw EXCEPT ![p] = provider_response]
    /\ http_response' = [http_response EXCEPT ![p] = proxy_execute(RequestId(p), operation_type, r)]

RejectAfterAcquire(p, operation_type, r) ==
    /\ Return(p, operation_type, r, NotCalled)
    /\ requests' = Append(Pruned(requests, now), now)
    /\ UNCHANGED <<lock, attempt, tries, wake, grants, slots>>

\* the early returns of execute_operation: unknown operation, invalid payload
Reject(p, operation_type, r) ==
    /\ Return(p, operation_type, r, NotCalled)
    /\ UNCHANGED <<requests, lock, attempt, tries, wake, grants, slots>>

\* _make_request of task p, from its first line: acquire() of the rate limiter,
\* then the loop.  `async with self.lock` suspends the task when the lock is
\* held; with the window full the task sleeps inside the lock; otherwise
\* acquire() returns without suspending and attempt 0 calls session.request.
MakeRequest(p) ==
    IF lock # NoTask
    THEN /\ pc' = [pc EXCEPT ![p] = "lock_wait"]
         /\ UNCHANGED <<requests, lock, attempt, tries, wake, grants, slots>>
    ELSE LET kept == Pruned(requests, now)
         IN  IF WindowFull(kept)
             THEN /\ requests' = kept
                  /\ lock' = p
                  /\ pc' = [pc EXCEPT ![p] = "rate_sleep"]
                  /\ wake' = [wake EXCEPT ![p] = now + RateLimitSleep(kept, now)]
                  /\ UNCHANGED <<attempt, tries, grants, slots>>
             ELSE /\ requests' = Append(kept, now)
                  /\ grants' = Append(grants, now)
                  /\ slots' = [slots EXCEPT ![p] = @ + 1]
                  /\ pc' = [pc EXCEPT ![p] = "request"]
                  /\ attempt' = [attempt EXCEPT ![p] = 0]
                  /\ tries' = [tries EXCEPT ![p] = 0]
                  /\ UNCHANGED <<lock, wake>>

\* A caller starts execute_operation(operation_type, payload) on an idle task:
\* lookup, validation, and the provider call up to its first suspension or to
\* its first session.request.
Execute(p, inputs, budget) ==
    /\ Quiet
    /\ pc[p] = "idle"
    /\ started < budget
    /\ started' = started + 1
    /\ UNCHANGED <<now, cfg, sent, sleeps, path, followed, last, wire>>
    /\ \E in \in inputs :
        LET rejected == [op |-> in.op, payload |-> in.payload, args |-> <<>>]
        IN  IF in.op \notin DOMAIN operation_map
            THEN /\ call' = [call EXCEPT ![p] = rejected]
                 /\ Reject(p, in.op, UnknownOperation(in.op))
            ELSE LET validator == operation_map[in.op].payload_validator
                     errors == PayloadErrors(validator, in.payload)
                 IN  IF errors # <<>>
                     THEN /\ call' = [call EXCEPT ![p] = rejected]
                          /\ Reject(p, in.op, ValidationFailed(errors))
                     ELSE /\ call' = [call EXCEPT ![p] =
                                [op |-> in.op,
                                 payload |-> in.payload,
                                 args |-> args_mapper(in.op,
                                            ValidatedPayload(validator, in.payload))]]
                          /\ MakeRequest(p)
                          /\ UNCHANGED <<result, raw, http_response>>

\* The rate limiter's sleep of task p ends: `return await self.acquire()`, the
\* whole of acquire() again, from inside the `async with self.lock` block.
Reacquire(p) ==
    /\ Quiet
    /\ pc[p] = "rate_sleep"
    /\ now >= wake[p]
    /\ MakeRequest(p)
    /\ UNCHANGED <<now, cfg, call, result, raw, started, sent, sleeps, path, followed,
                   last, wire, http_response>>

\* One exchange of session.request with the upstream, for attempt attempt[p] of
\* the loop of _make_request.  Either the session sends the request again, or
\* session.request ends with x: on 200 the body goes back through the provider
\* method and the rest of execute_operation; a retryable outcome with attempts
\* left starts the backoff sleep; anything else raises, and execute_operation
\* handles the exception.
Exchange(p, exchanges) ==
    /\ pc[p] = "request"
    /\ \E x \in exchanges, latency \in 0..MaxLatency, u \in JitterDraws :
        LET k == attempt[p]
            outcome == AttemptOutcome(k, x)
            again == SessionRetries(x, tries[p])
            sleeping == outcome.kind \in {"status_backoff", "exception_backoff"}
            sleep_time == IF outcome.kind = "status_backoff"
                          THEN StatusRetrySleep(k, u)
                          ELSE ExceptionRetrySleep(k, u)
            provider_response ==
                IF outcome.kind = "return"
                THEN provider_method(call[p].op, call[p].args, x.body)
                ELSE Raised(outcome.message)
        IN  /\ latency = 0 \/ (~again /\ now + latency <= MaxTime)
            /\ (~again /\ sleeping) \/ u = 0
            /\ now' = now + latency
            /\ sent' = [sent EXCEPT ![p] = @ + 1]
            /\ followed' = [followed EXCEPT ![p] = Follow(@, x)]
            /\ last' = [last EXCEPT ![p] = x]
            /\ wire' = InWindow(Append(wire, now), now')
            /\ IF again
               THEN /\ tries' = [tries EXCEPT ![p] = @ + 1]
                    /\ UNCHANGED <<pc, wake, sleeps, path, result, raw, http_response>>
               ELSE /\ tries' = [tries EXCEPT ![p] = 0]
                    /\ IF sleeping
                       THEN /\ pc' = [pc EXCEPT ![p] = "backoff"]
                            /\ wake' = [wake EXCEPT ![p] = now' + sleep_time]
                            /\ sleeps' = [sleeps EXCEPT ![p] = Append(@, sleep_time)]
                            /\ path' = [path EXCEPT ![p] = outcome.kind]
                            /\ UNCHANGED <<result, raw, http_response>>
                       ELSE /\ Return(p, call[p].op,
                                   AfterProviderCall(call[p].op, provider_response),
                                   provider_response)
                            /\ UNCHANGED <<wake, sleeps, path>>
    /\ UNCHANGED <<cfg, requests, lock, call, attempt, started, grants, slots>>

\* a loop that acquires a slot of the rate limiter for every attempt
RetryAcquiring(p) ==
    /\ Quiet
    /\ pc[p] = "backoff"
    /\ now >= wake[p]
    /\ pc' = [pc EXCEPT ![p] = "request"]
    /\ attempt' = [attempt EXCEPT ![p] = @ + 1]
    /\ requests' = Append(Pruned(requests, now), now)
    /\ grants' = Append(grants, now)
    /\ slots' = [slots EXCEPT ![p] = @ + 1]
    /\ UNCHANGED <<now, cfg, lock, call, tries, wake, result, raw,
                   started, sent, sleeps, path, followed, last, wire,
                   http_response>>

\* The backoff sleep of task p ends: `continue`, the next attempt of the loop.
Retry(p) ==
    /\ Quiet
    /\ pc[p] = "backoff"
    /\ now >= wake[p]
    /\ pc' = [pc EXCEPT ![p] = "request"]
    /\ attempt' = [attempt EXCEPT ![p] = @ + 1]
    /\ UNCHANGED <<now, cfg, requests, lock, call, tries, wake, result, raw,
                   started, grants, sent, slots, sleeps, path, followed, last, wire,
                   http_response>>

\* The caller has the result; the task is free for the next execution.
Deliver(p) ==
    /\ pc[p] = "done"
    /\ pc' = [pc EXCEPT ![p] = "idle"]
    /\ call' = [call EXCEPT ![p] = NoCall]
    /\ attempt' = [attempt EXCEPT ![p] = 0]
    /\ wake' = [wake EXCEPT ![p] = 0]
    /\ result' = [result EXCEPT ![p] = NoResult]
    /\ raw' = [raw EXCEPT ![p] = NotCalled]
    /\ sent' = [sent EXCEPT ![p] = 0]
    /\ slots' = [slots EXCEPT ![p] = 0]
    /\ sleeps' = [sleeps EXCEPT ![p] = <<>>]
    /\ path' = [path EXCEPT ![p] = ""]
    /\ followed' = [followed EXCEPT ![p] = 0]
    /\ last' = [last EXCEPT ![p] = NoExchange]
    /\ http_response' = [http_response EXCEPT ![p] = NoResponse]
    /\ UNCHANGED <<now, cfg, requests, lock, tries, started, grants, wire>>

\* Time passes while every task is suspended: one step of the clock, or up to
\* the end of a sleep.
Sleeping == {p \in Tasks : pc[p] \in {"backoff", "rate_sleep"} /\ wake[p] > now}

AdvanceClock ==
    /\ Quiet
    /\ \E t \in {u \in {now + ClockStep} : u <= MaxTime} \cup {wake[p] : p \in Sleeping} :
            /\ now' = t
            /\ wire' = InWindow(wire, t)
    /\ UNCHANGED <<cfg, requests, lock, pc, call, attempt, tries, wake, result, raw,
                   started, grants, sent, slots, sleeps, path, followed, last, http_response>>

----------------------------------------------------------------------------
(* Spec: concurrent executions sharing the rate limiter.                   *)

Inputs ==
    { [op |-> "ListLeagues", payload |-> EmptyDict],
      [op |-> "GetMatch", payload |-> [match_id |-> JInt(7)]],
      [op |-> "GetTeam", payload |-> [team_id |-> JStr("forty")]],
      [op |-> "GetPlayer", payload |-> EmptyDict] }

Upstream == { Response(200, JArr(<<>>)), Response(503, JNull) }

Init == InitWith({ShortConfig})

Next ==
    \/ \E p \in Tasks : Execute(p, Inputs, MaxOps)
    \/ \E p \in Tasks : Reacquire(p)
    \/ \E p \in Tasks : Exchange(p, Upstream)
    \/ \E p \in Tasks : Retry(p)
    \/ \E p \in Tasks : Deliver(p)
    \/ AdvanceClock

Spec == Init /\ [][Next]_vars

----------------------------------------------------------------------------
(* SoloSpec: one execution at a time, over every operation name, payload,  *)
(* configuration and upstream answer of the model.                         *)

AllInputs == {[op |-> o, payload |-> d] : o \in OperationTypes, d \in Payloads}

SoloInit == InitWith(Configs)

SoloNext ==
    \/ Execute(1, AllInputs, SoloOps)
    \/ Exchange(1, Exchanges)
    \/ Retry(1)
    \/ Deliver(1)
    \/ AdvanceClock

SoloSpec == SoloInit /\ [][SoloNext]_vars

----------------------------------------------------------------------------
(* SteadySpec: ListLeagues repeated against an upstream that answers every *)
(* request with the same body.  The event loop runs every task that is     *)
(* ready and time passes, so every step of a started execution is taken    *)
(* when it stays possible; callers need not start further executions.      *)

SteadyBody == JArr(<<LeagueOne>>)

SteadyInputs == { [op |-> "ListLeagues", payload |-> EmptyDict] }

SteadyUpstream == { Response(200, SteadyBody) }

SteadyNext ==
    \/ \E p \in Tasks : Execute(p, SteadyInputs, MaxOps)
    \/ \E p \in Tasks : Reacquire(p)
    \/ \E p \in Tasks : Exchange(p, SteadyUpstream)
    \/ \E p \in Tasks : Deliver(p)
    \/ AdvanceClock

SteadySpec ==
    /\ Init
    /\ [][SteadyNext]_vars
    /\ \A p \in Tasks : WF_vars(Reacquire(p))
    /\ \A p \in Tasks : WF_vars(Exchange(p, SteadyUpstream))
    /\ \A p \in Tasks : WF_vars(Deliver(p))
    /\ WF_vars(AdvanceClock)

----------------------------------------------------------------------------
(* BurstSpec: more ListLeagues executions than the window has slots, so    *)
(* that an acquire() arrives while another execution waits inside          *)
(* acquire() for a slot.  The upstream answers every request with 200.     *)

BurstNext ==
    \/ \E p \in Tasks : Execute(p, SteadyInputs, BurstOps)
    \/ \E p \in Tasks : Reacquire(p)
    \/ \E p \in Tasks : Exchange(p, SteadyUpstream)
    \/ \E p \in Tasks : Deliver(p)
    \/ AdvanceClock

BurstSpec == Init /\ [][BurstNext]_vars

----------------------------------------------------------------------------
(* The claims.                                                             *)

Done(p) == pc[p] = "done"
IsError(r) == "error" \in DOMAIN r
Code(r) == IF "code" \in DOMAIN r THEN r.code ELSE ""
SeqSet(q) == {q[i] : i \in 1..Len(q)}

\* acquisitions granted in the trailing window of TimeWindow that ends at T
GrantsInWindow(T) ==
    Cardinality({i \in 1..Len(grants) : grants[i] <= T /\ T - grants[i] < TimeWindow})

\* C1: under any interleaving of acquire() calls, the recorded timestamps never
\* hold more than max_requests entries younger than time_window, and no more
\* than max_requests acquisitions are granted inside any trailing window of
\* time_window.
C1_WindowNeverOverfull ==
    /\ Cardinality({i \in 1..Len(requests) : now - requests[i] < TimeWindow}) <= MaxRequests
    /\ \A T \in 0..now : GrantsInWindow(T) <= MaxRequests

\* a slot was granted after an old timestamp aged out, and the window is full again
C1_Witness ==
    /\ Len(grants) > MaxRequests
    /\ Len(requests) = MaxRequests
    /\ \A i \in 1..Len(requests) : now - requests[i] < TimeWindow

\* C2: an acquire() that found the window full is granted a slot when its wait
\* is over, the oldest timestamp has aged out and nobody took the freed slot:
\* the step that ends its wait reserves the slot and goes on to the request.
C2_WaiterIsGranted ==
    [][\A p \in Tasks :
          (/\ pc[p] = "rate_sleep"
           /\ pc'[p] # "rate_sleep"
           /\ ~WindowFull(Pruned(requests, now)))
          => (/\ pc'[p] = "request"
              /\ Len(grants') = Len(grants) + 1
              /\ grants'[Len(grants')] >= TimeWindow)]_vars

\* C3: one call of _make_request puts at most max_retries + 1 HTTP requests on
\* the wire, whatever the upstream answers.
C3_AttemptsBounded == \A p \in Tasks : sent[p] <= cfg.max_retries + 1

\* C4: with max_retries=3, base_delay=1, backoff_multiplier=2, max_delay=30,
\* jitter_range=0 and an upstream answering 503, 503, 503, 200 to the successive
\* requests of one call, the call makes exactly 4 attempts, sleeps 1 s, 2 s and
\* 4 s between them, and returns the body of the 200.
C4_ScenarioRun ==
    \A p \in Tasks :
        (Done(p) /\ cfg = ScenarioConfig /\ followed[p] = Len(Scenario))
        => (/\ sent[p] = 4
            /\ sleeps[p] = <<10, 20, 40>>
            /\ ~last[p].exc /\ last[p].status = 200
            /\ raw[p].called)

\* C5: the backoff sleep after attempt i (0-indexed), on either path, lies
\* between delay*(1 - jitter_range) and delay*(1 + jitter_range) for
\* delay = min(base_delay * backoff_multiplier^i, max_delay), is never negative,
\* and equals delay when jitter_range = 0.
C5_BackoffWithinJitter ==
    \A p \in Tasks :
        /\ sleeps[p] # <<>> => path[p] \in {"status_backoff", "exception_backoff"}
        /\ \A n \in 1..Len(sleeps[p]) :
            LET delay == Min(cfg.base_delay * Pow(cfg.backoff_multiplier, n - 1),
                             cfg.max_delay)
                sleep_time == sleeps[p][n]
            IN  /\ sleep_time >= 0
                /\ 100 * sleep_time >= delay * (100 - cfg.jitter_range)
                /\ 100 * sleep_time <= delay * (100 + cfg.jitter_range)
                /\ cfg.jitter_range = 0 => sleep_time = delay

\* two retries of one call under jitter: the first sleep floored at 0, the
\* second from the capped delay, computed on the transport-failure path
C5_Witness ==
    \E p \in Tasks :
        /\ cfg.jitter_range > 0
        /\ cfg.base_delay * cfg.backoff_multiplier > cfg.max_delay
        /\ Len(sleeps[p]) = 2
        /\ sleeps[p][1] = 0
        /\ sleeps[p][2] > cfg.max_delay
        /\ path[p] = "exception_backoff"

\* C6: for an operation name that is not in the registry, whatever the payload,
\* execute_operation returns UNKNOWN_OPERATION with details.valid_operations
\* listing exactly ListLeagues, GetLeagueMatches, GetTeam, GetMatch.
C6_UnknownOperationListsRegistry ==
    \A p \in Tasks :
        (Done(p) /\ call[p].op \notin DOMAIN operation_map)
        => (/\ Code(result[p]) = "UNKNOWN_OPERATION"
            /\ SeqSet(result[p].details.valid_operations)
                    = {"ListLeagues", "GetLeagueMatches", "GetTeam", "GetMatch"}
            /\ SeqSet(result[p].details.valid_operations) = DOMAIN operation_map
            /\ Len(result[p].details.valid_operations) = 4)

C6_Witness ==
    \E p \in Tasks :
        /\ Done(p)
        /\ call[p].op = "GetPlayer"
        /\ call[p].payload # EmptyDict
        /\ Code(result[p]) = "UNKNOWN_OPERATION"

\* the declared fields of an operation's payload that the payload d leaves out
\* or fills with a value of the wrong type
FailingFields(operation_type, d) ==
    LET fs == ModelFields(operation_map[operation_type].payload_validator)
    IN  {fs[i].name : i \in {j \in 1..Len(fs) :
            \/ fs[j].name \notin DOMAIN d
            \/ ~ValidateScalar(fs[j].type.k, d[fs[j].name]).ok}}

\* C7: for a registered operation whose payload violates the declared shape,
\* execute_operation returns VALIDATION_ERROR with exactly one entry (field
\* path, message, violation kind) per failing field; GetLeagueMatches with only
\* league_shortcut yields exactly one entry, for league_season.
C7_OneEntryPerFailingField ==
    \A p \in Tasks :
        (/\ Done(p)
         /\ call[p].op \in DOMAIN operation_map
         /\ FailingFields(call[p].op, call[p].payload) # {})
        => LET entries == result[p].details.validation_errors
               failing == FailingFields(call[p].op, call[p].payload)
           IN  /\ Code(result[p]) = "VALIDATION_ERROR"
               /\ Len(entries) = Cardinality(failing)
               /\ \A f \in failing :
                    Cardinality({i \in 1..Len(entries) : entries[i].field = f}) = 1
               /\ \A i \in 1..Len(entries) :
                    /\ DOMAIN entries[i] = {"field", "message", "type"}
                    /\ entries[i].message # ""
                    /\ entries[i].type # ""
               /\ (call[p].op = "GetLeagueMatches"
                        /\ call[p].payload = [league_shortcut |-> JStr("bl1")])
                    => (Len(entries) = 1 /\ entries[1].field = "league_season")

\* a payload with two failing fields
C7_Witness ==
    \E p \in Tasks :
        /\ Done(p)
        /\ call[p].op = "GetLeagueMatches"
        /\ Cardinality(FailingFields(call[p].op, call[p].payload)) = 2
        /\ Code(result[p]) = "VALIDATION_ERROR"

\* C8: an execution that ends in UNKNOWN_OPERATION or VALIDATION_ERROR has
\* called no provider method, acquired no slot and sent no HTTP request, and
\* leaves the rate limiter's timestamps as they were.
C8_RejectionTouchesNothing ==
    [][\A p \in Tasks :
          (/\ pc[p] # "done"
           /\ pc'[p] = "done"
           /\ Code(result'[p]) \in {"UNKNOWN_OPERATION", "VALIDATION_ERROR"})
          => (/\ pc[p] = "idle"
              /\ requests' = requests
              /\ grants' = grants
              /\ lock' = lock
              /\ ~raw'[p].called
              /\ slots'[p] = 0
              /\ sent'[p] = 0)]_vars

\* a rejected execution while the limiter holds timestamps and another
\* execution is between two attempts
C8_Witness ==
    \E p, q \in Tasks :
        /\ Done(p)
        /\ Code(result[p]) = "VALIDATION_ERROR"
        /\ requests # <<>>
        /\ pc[q] = "backoff"

\* C9: whenever the provider method raises (retries exhausted, a non-retryable
\* status, a transport failure, or the adapter's own "not found"),
\* execute_operation returns UPSTREAM_ERROR carrying the exception's message.
C9_ProviderFailureIsUpstreamError ==
    \A p \in Tasks :
        (Done(p) /\ raw[p].raised)
        => (/\ IsError(result[p])
            /\ Code(result[p]) = "UPSTREAM_ERROR"
            /\ result[p].details.message = raw[p].message
            /\ raw[p].message # "")

\* retries exhausted on a retryable status
C9_Witness ==
    \E p \in Tasks :
        /\ Done(p)
        /\ raw[p].raised
        /\ attempt[p] = cfg.max_retries
        /\ raw[p].message = "Upstream API failed with status 503"

RECURSIVE SatisfiesSchema(_, _)
\* x has every required field of the type, each of a type the schema accepts
SatisfiesSchema(type, x) ==
    CASE type.k = "model" ->
            /\ IsDict(x)
            /\ \A i \in 1..Len(ModelFields(type.m)) :
                LET f == ModelFields(type.m)[i]
                IN  IF f.alias \in DOMAIN x.v
                    THEN SatisfiesSchema(f.type, x.v[f.alias])
                    ELSE ~f.required
      [] type.k = "list" ->
            /\ IsList(x)
            /\ \A i \in 1..Len(x.v) : SatisfiesSchema(Model(type.m), x.v[i])
      [] type.k = "int" ->
            \/ x.t \in {"int", "bool"}
            \/ x.t = "str" /\ ParseInt(x.v).ok
      [] type.k = "str" -> x.t = "str"
      [] type.k = "optstr" -> x.t \in {"str", "null"}
      [] type.k = "bool" ->
            \/ x.t = "bool"
            \/ x.t = "int" /\ x.v \in {0, 1}
            \/ x.t = "str" /\ x.v \in {"true", "false"}
      [] type.k = "datestr" -> x.t \in {"str", "int"}

RECURSIVE FilledRecord(_, _)
\* y is a record of the type with every field present under its output name and
\* of the field's type
FilledRecord(type, y) ==
    CASE type.k = "model" ->
            /\ IsDict(y)
            /\ DOMAIN y.v = {ModelFields(type.m)[i].name : i \in 1..Len(ModelFields(type.m))}
            /\ \A i \in 1..Len(ModelFields(type.m)) :
                LET f == ModelFields(type.m)[i]
                IN  FilledRecord(f.type, y.v[f.name])
      [] type.k = "list" ->
            /\ IsList(y)
            /\ \A i \in 1..Len(y.v) : FilledRecord(Model(type.m), y.v[i])
      [] type.k = "int" -> y.t = "int"
      [] type.k = "str" -> y.t = "str"
      [] type.k = "optstr" -> y.t \in {"str", "null"}
      [] type.k = "bool" -> y.t = "bool"
      [] type.k = "datestr" -> y.t \in {"str", "datetime"}

\* C10: execute_operation returns a normalized record only if the provider
\* method's result satisfies the operation's output schema, and then the record
\* has every field; otherwise it returns the INTERNAL_ERROR object.
C10_RecordOnlyIfSchemaSatisfied ==
    \A p \in Tasks :
        (Done(p) /\ raw[p].called /\ ~raw[p].raised)
        => LET schema == Model(operation_map[call[p].op].response_schema)
           IN  IF SatisfiesSchema(schema, raw[p].value)
               THEN /\ ~IsError(result[p])
                    /\ FilledRecord(schema, JObj(result[p]))
               ELSE /\ IsError(result[p])
                    /\ Code(result[p]) = "INTERNAL_ERROR"
                    /\ DOMAIN result[p] = {"error", "code", "details"}

\* a provider result with a field of the wrong type
C10_Witness ==
    \E p \in Tasks :
        /\ Done(p)
        /\ raw[p].called /\ ~raw[p].raised
        /\ call[p].op = "GetLeagueMatches"
        /\ Len(raw[p].value.v.matches.v) = 1
        /\ raw[p].value.v.matches.v[1].v.is_finished = JNull
        /\ Code(result[p]) = "INTERNAL_ERROR"

ErrorCodes == {"UNKNOWN_OPERATION", "VALIDATION_ERROR", "UPSTREAM_ERROR", "INTERNAL_ERROR"}

\* the output names of the fields of a response model
OutputNames(m) == {ModelFields(m)[i].name : i \in 1..Len(ModelFields(m))}

\* the execution on task p failed at some stage of the pipeline
Failed(p) ==
    \/ call[p].op \notin DOMAIN operation_map
    \/ FailingFields(call[p].op, call[p].payload) # {}
    \/ raw[p].raised
    \/ /\ raw[p].called
       /\ ~SatisfiesSchema(Model(operation_map[call[p].op].response_schema), raw[p].value)

\* C11: every completed execute_operation call returns either a normalized
\* record without an 'error' key, or an error object with the keys error and
\* code, code being one of the four error codes; a failure at any stage
\* (lookup, validation, provider call, normalization) returns the error object.
C11_RecordOrErrorObject ==
    \A p \in Tasks :
        Done(p) =>
            /\ IF IsError(result[p])
               THEN /\ {"error", "code"} \subseteq DOMAIN result[p]
                    /\ DOMAIN result[p] \subseteq {"error", "code", "details"}
                    /\ result[p].code \in ErrorCodes
               ELSE /\ call[p].op \in DOMAIN operation_map
                    /\ DOMAIN result[p] = OutputNames(operation_map[call[p].op].response_schema)
            /\ Failed(p) <=> IsError(result[p])

\* a transport failure on the last attempt of a GetTeam call
C11_Witness ==
    \E p \in Tasks :
        /\ Done(p)
        /\ call[p].op = "GetTeam"
        /\ last[p].exc
        /\ attempt[p] = cfg.max_retries
        /\ IsError(result[p])
        /\ result[p].code = "UPSTREAM_ERROR"

\* the short messages the program itself words
ShortMessages ==
    {"Provider response format unexpected", "Match not found"}
        \cup {"Upstream API failed with status " \o ToString(st) : st \in ErrorStatuses}

\* C12: no error object returned by execute_operation carries raw internal
\* exception text: its message is one of the short fixed messages.
C12_NoRawExceptionText ==
    \A p \in Tasks :
        (Done(p) /\ IsError(result[p]))
        => /\ result[p].error \in
                {"Unknown operationType: " \o call[p].op, "Payload validation failed",
                 "Upstream API failed", "Internal response normalization error"}
           /\ "message" \in DOMAIN result[p].details
                => result[p].details.message \in ShortMessages

\* the last exchange of task p was a 200 answer: its body went to the provider method
Answered(p) == ~last[p].exc /\ last[p].status = 200

\* the element GetMatch resolves a body to: the object itself, or the first
\* element of a non-empty array; JNull when there is none
ResolvedMatch(b) ==
    IF IsDict(b) THEN b
    ELSE IF IsList(b) /\ Len(b.v) > 0 THEN b.v[1]
    ELSE JNull

\* C13: GetMatch uses an object body as is and the first element of a non-empty
\* array; with an empty body (also []), a body that is neither array nor object,
\* or a resolved element that is no object, it returns UPSTREAM_ERROR with the
\* message "Match not found".
C13_GetMatchResolution ==
    \A p \in Tasks :
        (Done(p) /\ call[p].op = "GetMatch" /\ Answered(p))
        => LET b == last[p].body
               match == ResolvedMatch(b)
           IN  /\ raw[p].called
               /\ (~Truthy(b) \/ ~(IsDict(b) \/ IsList(b)) \/ ~IsDict(match))
                    => /\ raw[p].raised
                       /\ IsError(result[p])
                       /\ result[p].code = "UPSTREAM_ERROR"
                       /\ result[p].details.message = "Match not found"
               /\ (IsDict(match) /\ Truthy(match))
                    => /\ ~raw[p].raised
                       /\ raw[p].value.v.match.v.match_id = Get(match.v, "matchID", JInt(0))
                       /\ raw[p].value.v.match.v.league_name
                            = Get(match.v, "leagueName", JStr(""))

\* GetMatch against the body []
C13_Witness ==
    \E p \in Tasks :
        /\ Done(p)
        /\ call[p].op = "GetMatch"
        /\ Answered(p)
        /\ last[p].body = JArr(<<>>)
        /\ result[p].details.message = "Match not found"

\* C14: for every match element GetLeagueMatches maps: without match results
\* (none given, or an empty array) the score is home 0, away 0, status
\* "scheduled"; with results (a non-empty array whose last element is a result
\* object) the score is that of the last element and the status is "finished"
\* when the match's finished flag is true and "in_progress" otherwise.
C14_FinalScoreMapping ==
    \A p \in Tasks :
        (/\ Done(p)
         /\ call[p].op = "GetLeagueMatches"
         /\ Answered(p)
         /\ IsList(last[p].body))
        => LET elements == SelectSeq(last[p].body.v, IsDict)
               mapped == raw[p].value.v.matches.v
           IN  /\ raw[p].called /\ ~raw[p].raised
               /\ Len(mapped) = Len(elements)
               /\ \A i \in 1..Len(elements) :
                    LET results == Get(elements[i].v, "matchResults", JArr(<<>>))
                        score == mapped[i].v.final_score.v
                        flag == Get(elements[i].v, "matchIsFinished", JNull)
                    IN  /\ (IsList(results) /\ Len(results.v) = 0)
                            => /\ score.home = JInt(0)
                               /\ score.away = JInt(0)
                               /\ score.match_status = JStr("scheduled")
                        /\ (/\ IsList(results)
                            /\ Len(results.v) > 0
                            /\ IsDict(results.v[Len(results.v)]))
                            => LET final == results.v[Len(results.v)].v
                               IN  /\ score.home = Get(final, "pointsTeam1", JInt(0))
                                   /\ score.away = Get(final, "pointsTeam2", JInt(0))
                                   /\ score.match_status =
                                        IF flag = JBool(TRUE) THEN JStr("finished")
                                        ELSE JStr("in_progress")

\* a match in progress and a finished match with two results, in one answer
C14_Witness ==
    \E p \in Tasks :
        /\ Done(p)
        /\ call[p].op = "GetLeagueMatches"
        /\ Answered(p)
        /\ last[p].body = JArr(<<MatchLive, MatchFinished>>)
        /\ raw[p].value.v.matches.v[1].v.final_score.v.match_status = JStr("in_progress")
        /\ raw[p].value.v.matches.v[2].v.final_score.v.match_status = JStr("finished")
        /\ raw[p].value.v.matches.v[2].v.final_score.v.home = JInt(2)

TeamDefaults ==
    [id |-> JInt(0), name |-> JStr(""), short_name |-> JStr(""), icon_url |-> JNull]

\* the team fields an upstream object carries are of the declared types
WellTypedTeam(b) ==
    /\ "teamId" \in DOMAIN b.v => b.v.teamId.t = "int"
    /\ "teamName" \in DOMAIN b.v => b.v.teamName.t = "str"
    /\ "shortName" \in DOMAIN b.v => b.v.shortName.t = "str"
    /\ "teamIconUrl" \in DOMAIN b.v => b.v.teamIconUrl.t \in {"str", "null"}

\* C15: GetTeam against a 200 answer whose body is no object returns the
\* TeamDetail of all defaults (id 0, name "", short_name "", icon_url None), and
\* against an object with missing fields a TeamDetail with the default for each
\* missing field; neither is an error.
C15_GetTeamDefaults ==
    \A p \in Tasks :
        (Done(p) /\ call[p].op = "GetTeam" /\ Answered(p))
        => LET b == last[p].body
           IN  /\ ~IsDict(b)
                    => /\ ~IsError(result[p])
                       /\ result[p] = [team |-> JObj(TeamDefaults)]
               /\ (IsDict(b) /\ WellTypedTeam(b))
                    => /\ ~IsError(result[p])
                       /\ result[p].team.v.id = Get(b.v, "teamId", TeamDefaults.id)
                       /\ result[p].team.v.name = Get(b.v, "teamName", TeamDefaults.name)
                       /\ result[p].team.v.short_name
                            = Get(b.v, "shortName", TeamDefaults.short_name)
                       /\ result[p].team.v.icon_url
                            = Get(b.v, "teamIconUrl", TeamDefaults.icon_url)

\* GetTeam against the body 5, a number
C15_Witness ==
    \E p \in Tasks :
        /\ Done(p)
        /\ call[p].op = "GetTeam"
        /\ Answered(p)
        /\ last[p].body = JInt(5)
        /\ result[p] = [team |-> JObj(TeamDefaults)]

\* GetTeam against an object that lacks shortName and teamIconUrl
C15_WitnessMissingFields ==
    \E p \in Tasks :
        /\ Done(p)
        /\ call[p].op = "GetTeam"
        /\ Answered(p)
        /\ last[p].body = TeamBvb
        /\ result[p].team.v.id = JInt(7)
        /\ result[p].team.v.short_name = JStr("")

\* the normalized output of ListLeagues for the body SteadyBody
SteadyOutput ==
    [leagues |-> JArr(<< JObj([id |-> JInt(1), name |-> JStr("1. Bundesliga"),
                               shortcut |-> JStr("bl1"), country |-> JStr("DE"),
                               season |-> JStr("2024")]) >>)]

\* C16: every repetition of ListLeagues against an upstream that returns the
\* same body every time yields the same normalized output, whatever rate
\* limiter and retry state the earlier repetitions left.
C16_EveryRepetitionSameOutput ==
    \A p \in Tasks :
        (call[p].op = "ListLeagues" /\ pc[p] # "idle")
            ~> (Done(p) /\ result[p] = SteadyOutput)

\* task p is in one of the waits of an execution
Waiting(p) == pc[p] \in {"rate_sleep", "backoff", "request"}

\* C17: while one execution is in a wait (the rate limiter's wait, a backoff
\* sleep, or an outbound HTTP call in flight), the other executions can still
\* take their steps: a new execution can start on an idle task, and an
\* execution whose backoff sleep is over can go on to its next attempt.
C17_WaitsDoNotBlockOthers ==
    \A p, q \in Tasks :
        (p # q /\ Waiting(p))
        => /\ (pc[q] = "idle" /\ started < MaxOps) => ENABLED Execute(q, Inputs, MaxOps)
           /\ (pc[q] = "backoff" /\ now >= wake[q]) => ENABLED Retry(q)

\* C18: across all executions, the outbound calls sent to the upstream within
\* any rolling window of time_window never number more than max_requests.
C18_OutboundRateBounded ==
    /\ Len(wire) <= MaxRequests
    /\ \A i \in 1..Len(wire) : wire[i] <= now /\ now - wire[i] < TimeWindow

\* C19: every HTTP response the front-end returns for an execution, also for one
\* that failed with UNKNOWN_OPERATION, VALIDATION_ERROR, UPSTREAM_ERROR or
\* INTERNAL_ERROR, carries the request identifier.
C19_ResponsesCarryRequestId ==
    \A p \in Tasks :
        Done(p) =>
            /\ "requestId" \in DOMAIN http_response[p].content
            /\ http_response[p].content.requestId = RequestId(p)

\* the step completes an HTTP attempt of the call on task p
Attempted(p) == sent'[p] = sent[p] + 1

\* C20: after each attempt of one outbound call exactly these transitions are
\* taken.  Status 200: the body is returned, and the call is over.  A status in
\* {429, 500, 502, 503, 504} or a transport failure, with attempts remaining: a
\* backoff sleep, then the next attempt.  Any other status, or any failure on the
\* last allowed attempt: the call fails at once with an error carrying the last
\* status or the cause, and makes no further attempt.
C20_RetryTransitions ==
    [][\A p \in Tasks :
          /\ Attempted(p) =>
                LET x == last'[p]
                    remaining == sent[p] < cfg.max_retries
                IN  CASE ~x.exc /\ x.status = 200 ->
                            /\ pc'[p] = "done"
                            /\ raw'[p].called
                      [] (x.exc \/ x.status \in {429, 500, 502, 503, 504}) /\ remaining ->
                            /\ pc'[p] = "backoff"
                            /\ Len(sleeps'[p]) = Len(sleeps[p]) + 1
                      [] OTHER ->
                            /\ pc'[p] = "done"
                            /\ raw'[p].raised
                            /\ raw'[p].message =
                                IF x.exc
                                THEN "Upstream API request failed: " \o x.cause
                                ELSE "Upstream API failed with status " \o ToString(x.status)
          /\ (pc[p] = "backoff" /\ pc'[p] # "backoff") =>
                /\ pc'[p] = "request"
                /\ now >= wake[p]
          /\ (pc[p] = "done" /\ pc'[p] # "done") => pc'[p] = "idle"]_vars

\* C21: an execution waiting inside acquire() for a slot does not hold up the
\* acquire() of another execution: no execution is kept waiting for the
\* limiter's lock by a waiter while fewer than max_requests timestamps lie
\* inside the window.
C21_WaiterDoesNotHoldUpOthers ==
    \A p, q \in Tasks :
        (p # q /\ lock = p /\ pc[q] = "lock_wait")
        => WindowFull(Pruned(requests, now))

\* task p is inside the provider method (acquire(), the loop of _make_request)
InAdapter(p) == pc[p] \in {"lock_wait", "rate_sleep", "request", "backoff"}

\* C22: within one execute_operation the provider method is invoked at most
\* once.  An execution enters the provider method only from the start of a new
\* execute_operation call; once the method has returned or raised, the
\* execution is in its return, makes no further HTTP request and goes nowhere
\* but back to the caller.
C22_AdapterInvokedOnce ==
    [][\A p \in Tasks :
          /\ raw[p].called =>
                /\ pc[p] = "done"
                /\ pc'[p] \in {"done", "idle"}
                /\ sent'[p] \in {sent[p], 0}
          /\ raw'[p].called => pc'[p] = "done"
          /\ (~InAdapter(p) /\ InAdapter(p)') =>
                /\ pc[p] = "idle"
                /\ started' = started + 1]_vars

\* an upstream failure was surfaced to the dispatcher after retries
C22_Witness ==
    \E p \in Tasks :
        /\ Done(p)
        /\ raw[p].raised
        /\ Code(result[p]) = "UPSTREAM_ERROR"
        /\ sent[p] > 1

\* C23: GetMatch and GetLeagueMatches apply the same field mapping: every
\* record GetLeagueMatches produces for an element of the upstream array equals,
\* field by field, the record GetMatch produces for that upstream object.
C23_SameMatchMapping ==
    \A p \in Tasks :
        (/\ Done(p)
         /\ call[p].op = "GetLeagueMatches"
         /\ Answered(p)
         /\ IsList(last[p].body)
         /\ raw[p].called /\ ~raw[p].raised)
        => LET elements == SelectSeq(last[p].body.v, IsDict)
               mapped == raw[p].value.v.matches.v
           IN  \A i \in 1..Len(elements) :
                    LET single == get_match(elements[i], JInt(0))
                    IN  ~single.raised => mapped[i] = single.value.v.match

\* a field of an upstream league object: present with a value of its type
WellFormed(l, key, kind) == key \in DOMAIN l.v /\ ValidateScalar(kind, l.v[key]).ok

\* the LeagueSummary of the upstream object l, each absent or malformed field
\* replaced by its default
ExpectedLeague(l) ==
    LET field(key, kind, default) ==
            IF WellFormed(l, key, kind) THEN ValidateScalar(kind, l.v[key]).v ELSE default
    IN  JObj([id |-> field("leagueId", "int", JInt(0)),
              name |-> field("leagueName", "str", JStr("")),
              shortcut |-> field("leagueShortcut", "str", JStr("")),
              country |-> field("country", "str", JStr("")),
              season |-> field("leagueSeason", "str", JStr(""))])

\* C24: ListLeagues against a 200 answer with an array body never fails on
\* missing or malformed upstream fields: non-object elements are skipped, every
\* object element yields one LeagueSummary, in order, and each absent or
\* malformed field is replaced by its default (0 or the empty string).
C24_ListLeaguesTolerant ==
    \A p \in Tasks :
        (/\ Done(p)
         /\ call[p].op = "ListLeagues"
         /\ Answered(p)
         /\ IsList(last[p].body))
        => LET elements == SelectSeq(last[p].body.v, IsDict)
           IN  /\ ~IsError(result[p])
               /\ Len(result[p].leagues.v) = Len(elements)
               /\ \A i \in 1..Len(elements) :
                    result[p].leagues.v[i] = ExpectedLeague(elements[i])

\* C25: each call of _make_request acquires exactly one slot of the rate
\* limiter, and has it before its first HTTP request is sent; the attempts of
\* the call, retries included, acquire nothing; a call that fails leaves its
\* timestamp in the limiter.
C25_OneSlotPerCall ==
    [][\A p \in Tasks :
          /\ slots'[p] <= 1
          /\ (sent'[p] > 0 \/ pc'[p] \in {"request", "backoff"}) => slots'[p] = 1
          /\ Attempted(p) =>
                /\ slots[p] = 1
                /\ UNCHANGED <<slots, requests, grants>>
          /\ (pc[p] = "backoff" /\ pc'[p] # "backoff") =>
                /\ pc'[p] = "request"
                /\ UNCHANGED <<slots, requests, grants>>
          /\ (~raw[p].raised /\ raw'[p].raised) =>
                /\ slots'[p] = 1
                /\ UNCHANGED <<requests, grants>>]_vars

\* a call failed after a retry, and its timestamp is still in the limiter
C25_Witness ==
    \E p \in Tasks :
        /\ Done(p)
        /\ raw[p].raised
        /\ Len(sleeps[p]) > 0
        /\ slots[p] = 1
        /\ requests # <<>>
        /\ requests[Len(requests)] = grants[Len(grants)]
        /\ Len(requests) = Len(grants)

\* the timestamps are in non-decreasing order
Sorted(reqs) == \A i, j \in 1..Len(reqs) : i <= j => reqs[i] <= reqs[j]

\* C26: whenever acquire() finds the window full, the retained timestamps are
\* in non-decreasing order, so that requests[0] is the oldest of them, and the
\* wait it computes is strictly positive and at most time_window + 0.1 s.
C26_WaitWellFormed ==
    [][\A p \in Tasks :
          (pc[p] # "rate_sleep" /\ pc'[p] = "rate_sleep")
          => LET sleep_time == wake'[p] - now'
             IN  /\ Len(requests') >= MaxRequests
                 /\ Sorted(requests')
                 /\ \A i \in 1..Len(requests') :
                        /\ requests'[1] <= requests'[i]
                        /\ requests'[i] <= now'
                        /\ now' - requests'[i] < TimeWindow
                 /\ sleep_time = TimeWindow - (now' - requests'[1]) + Margin
                 /\ sleep_time > 0
                 /\ sleep_time <= TimeWindow + Margin]_vars

\* an acquire() waits on a full window whose timestamps differ, the oldest
\* being older than now
C26_Witness ==
    \E p \in Tasks :
        /\ pc[p] = "rate_sleep"
        /\ lock = p
        /\ Len(requests) = MaxRequests
        /\ requests[1] < requests[Len(requests)]
        /\ wake[p] = requests[1] + TimeWindow + Margin
        /\ wake[p] - now < TimeWindow + Margin
        /\ wake[p] > now

====
